---------------------------- MODULE Spec2Model ----------------------------
(***************************************************************************)
(* EvoLyrics: two genetic algorithms.                                      *)
(*   lyric_ga.py      the string-GA: fixed-length strings matched against  *)
(*                    a target line or the lines of a corpus;              *)
(*   new_lyric_ga.py  the word-GA: lists of word indices scored by the     *)
(*                    legal pairs/triples and word frequencies of a corpus.*)
(* Every call of the random module is a nondeterministic choice over the   *)
(* values the call can return.  A genome is a sequence; a string is the    *)
(* sequence of its characters.  An individual is the record                *)
(* [fitness, solution] of the Python dictionary; fitness None is <<>> and  *)
(* a fitness v is <<v>>.                                                   *)
(***************************************************************************)
EXTENDS Integers, Sequences, FiniteSets, TLC

VARIABLES
    variant,        \* "string" (lyric_ga.py), "word" (new_lyric_ga.py), "unit"
    cfg,            \* the arguments of do_the_ga and what it derives from them
    pop,            \* do_the_ga's pop
    generation,     \* do_the_ga's generation counter
    best,           \* do_the_ga's best
    pc,             \* the statement of do_the_ga that runs next
    err,            \* the exception that ended the run, "none" while there is none
    call            \* the last call of an operator applied on its own

vars == <<variant, cfg, pop, generation, best, pc, err, call>>

-----------------------------------------------------------------------------
(* Bounds of the model *)

\* the largest pop_size of a run of the string-GA
MaxPop == 2
\* the largest max_gen
MaxGen == 2
\* the longest genome mutate is applied to on its own
MaxUnitLen == 31
\* the largest population tournament is applied to on its own
MaxUnitPop == 3

-----------------------------------------------------------------------------
(* Values *)

None == <<>>
Some(v) == <<v>>
Val(f) == f[1]

Individual(f, s) == [fitness |-> f, solution |-> s]

NoIndividual == Individual(None, <<>>)
NoCall == [fn |-> "none"]

Min2(a, b) == IF a <= b THEN a ELSE b
Max2(a, b) == IF a >= b THEN a ELSE b

\* all sequences of length n over the set S
RECURSIVE SeqsOfLen(_, _)
SeqsOfLen(S, n) ==
    IF n = 0 THEN {<<>>}
    ELSE {Append(s, x) : s \in SeqsOfLen(S, n - 1), x \in S}

\* s[:n] and s[n:] of Python, for 0 <= n
Prefix(s, n) == SubSeq(s, 1, Min2(n, Len(s)))
Suffix(s, n) == SubSeq(s, Min2(n, Len(s)) + 1, Len(s))


\* a fitness is a quotient num/den with den > 0: score/length in the string-GA,
\* thousandths in the word-GA
Frac(n, d) == [num |-> n, den |-> d]
FLt(a, b) == IF a.den = b.den THEN a.num < b.num ELSE a.num * b.den < b.num * a.den
FLe(a, b) == ~FLt(b, a)
FEq(a, b) == ~FLt(a, b) /\ ~FLt(b, a)

\* i["fitness"] > winner["fitness"], best["fitness"] < 1, ... on fitness fields
Fit(i) == Val(i.fitness)

-----------------------------------------------------------------------------
(* Python's random module *)

\* random.random() < n/d (d > 0): the truth values it can take.  random() lies
\* in [0.0, 1.0)
RandomBelow(n, d) == (IF n > 0 THEN {TRUE} ELSE {}) \cup (IF n < d THEN {FALSE} ELSE {})

\* random.sample(pop, k): the lists of k distinct positions of pop it can return;
\* it raises ValueError when k > len(pop) (or k < 0)
SampleRaises(n, k) == k > n \/ k < 0
Samples(n, k) ==
    {c \in SeqsOfLen(1..n, k) : \A i, j \in 1..k : i # j => c[i] # c[j]}

\* random.choices(operators, rates)[0]: the operators of positive weight; it
\* raises ValueError when the weights sum to zero (Python 3.9, the version the
\* repository names)
RECURSIVE SumSeq(_)
SumSeq(s) == IF s = <<>> THEN 0 ELSE s[1] + SumSeq(Tail(s))
ChoicesRaises(rates) == SumSeq(rates) <= 0
Choices(operators, rates) ==
    {operators[i] : i \in {j \in 1..Len(operators) : rates[j] > 0}}

-----------------------------------------------------------------------------
(* Sorting: sorted(pop, key = fitness, reverse = True) is stable *)

\* x goes behind every element whose fitness is >= its own
RECURSIVE InsertDesc(_, _)
InsertDesc(sorted, x) ==
    IF sorted = <<>> THEN <<x>>
    ELSE IF FLt(Fit(sorted[1]), Fit(x)) THEN <<x>> \o sorted
    ELSE <<sorted[1]>> \o InsertDesc(Tail(sorted), x)

RECURSIVE SortFrom(_, _)
SortFrom(done, rest) ==
    IF rest = <<>> THEN done
    ELSE SortFrom(InsertDesc(done, rest[1]), Tail(rest))

\* the population left in the order it came in
sorted_not(p) == p

sorted_reverse(p) == SortFrom(<<>>, p)

-----------------------------------------------------------------------------
(* lyric_ga.py: the string-GA *)

\* the corpus file: alphabet, and the lines of lyrics (line[1] of each entry)
alphabet == {"a", "b"}
lyrics == << <<"a", "b">>, <<"b", "b">>, <<"a">> >>

\* do_the_ga's target, <<>> for None
Target == <<"a", "b">>

initialise(pop_size, length, converged) ==
    IF converged
    THEN {[i \in 1..pop_size |-> Individual(None, solution)] :
             solution \in SeqsOfLen(alphabet, length)}
    ELSE {[i \in 1..pop_size |-> Individual(None, sols[i])] :
             sols \in SeqsOfLen(SeqsOfLen(alphabet, length), pop_size)}

\* the last position left out of the count
match_but_last(str1, str2) == Cardinality({i \in 1..(Len(str1) - 1) : str1[i] = str2[i]})

match(str1, str2) == Cardinality({i \in 1..Len(str1) : str1[i] = str2[i]})

RECURSIVE BestScore(_, _, _)
BestScore(solution, lines, fitness) ==
    IF lines = <<>> THEN fitness
    ELSE LET score == match(solution, lines[1])
         IN  BestScore(solution, Tail(lines), IF score > fitness THEN score ELSE fitness)

get_fitness(solution, lines, length) == Frac(BestScore(solution, lines, 0), length)

assess(p, length, lines) ==
    sorted_reverse([i \in 1..Len(p) |->
        Individual(Some(get_fitness(p[i].solution, lines, length)), p[i].solution)])

\* tournament, given the list random.sample returned: the position in pop of the
\* winner.  competitors.pop() takes the last of the list
\* the competitor of the lower fitness wins
RECURSIVE Compete_lowest(_, _, _)
Compete_lowest(p, competitors, winner) ==
    IF competitors = <<>> THEN winner
    ELSE LET i == competitors[Len(competitors)]
             rest == SubSeq(competitors, 1, Len(competitors) - 1)
         IN  Compete_lowest(p, rest, IF FLt(Fit(p[i]), Fit(p[winner])) THEN i ELSE winner)

RECURSIVE Compete(_, _, _)
Compete(p, competitors, winner) ==
    IF competitors = <<>> THEN winner
    ELSE LET i == competitors[Len(competitors)]
             rest == SubSeq(competitors, 1, Len(competitors) - 1)
         IN  Compete(p, rest, IF FLt(Fit(p[winner]), Fit(p[i])) THEN i ELSE winner)

tournament(p, competitors) ==
    Compete(p, SubSeq(competitors, 1, Len(competitors) - 1), competitors[Len(competitors)])

\* cross, given the point random.randrange(len(mum)) returned
CrossPoints(mum) == 0..(Len(mum) - 1)
\* dad's letter at the point left out
cross_skip(mum, dad, point) == Prefix(mum, point) \o Suffix(dad, point + 1)

cross(mum, dad, point) == Prefix(mum, point) \o Suffix(dad, point)

\* every list whose i-th element is drawn from the i-th set of the list sets
RECURSIVE ProductSeq(_)
ProductSeq(sets) ==
    IF sets = <<>> THEN {<<>>}
    ELSE {<<x>> \o rest : x \in sets[1], rest \in ProductSeq(Tail(sets))}

\* the last individual copied in place of the first
Elite_last(p, elitism) ==
    IF elitism THEN <<Individual(None, p[Len(p)].solution)>> ELSE <<>>

\* breed's offspring_pop before its loop
Elite(p, elitism) ==
    IF elitism THEN <<Individual(None, p[1].solution)>> ELSE <<>>

\* the solutions tournament(pop, tournament_size) can return
TournamentSolutions(p, tournament_size) ==
    {p[tournament(p, c)].solution : c \in Samples(Len(p), tournament_size)}

\* the solution one pass of breed's loop can append; crossover is in hundredths
BreedPass(p, tournament_size, crossover) ==
    LET mums == TournamentSolutions(p, tournament_size)
    IN  (IF TRUE \in RandomBelow(crossover, 100)
         THEN UNION {{cross(mum, dad, point) : point \in CrossPoints(mum)} :
                        mum \in mums, dad \in mums}
         ELSE {})
        \cup (IF FALSE \in RandomBelow(crossover, 100) THEN mums ELSE {})

\* breed raises: a pass of its loop runs and random.sample raises
BreedRaises(p, tournament_size, elitism) ==
    /\ Len(Elite(p, elitism)) < Len(p)
    /\ SampleRaises(Len(p), tournament_size)

\* the offspring populations breed can return
breed(p, tournament_size, crossover, elitism) ==
    LET first == Elite(p, elitism)
        passes == IF Len(p) > Len(first) THEN Len(p) - Len(first) ELSE 0
    IN  IF passes > 0 /\ SampleRaises(Len(p), tournament_size) THEN {}
        ELSE {first \o [i \in 1..passes |-> Individual(None, rest[i])] :
                 rest \in SeqsOfLen(BreedPass(p, tournament_size, crossover), passes)}

\* every individual mutated, the first too
FirstMutated_all(elitism) == 1

\* pop[elitism:] starts behind the first individual when elitism is True
FirstMutated(elitism) == IF elitism THEN 2 ELSE 1

\* what one letter can become: random.choice(alphabet) if random.random() <
\* mutation, the letter otherwise; mutation = 1.0/length
MutateLetter(letter, length) ==
    (IF TRUE \in RandomBelow(1, length) THEN alphabet ELSE {})
    \cup (IF FALSE \in RandomBelow(1, length) THEN {letter} ELSE {})

MutateSolution(solution, length) ==
    ProductSeq([j \in 1..Len(solution) |-> MutateLetter(solution[j], length)])

\* the populations mutate can return
mutate(p, elitism, length) ==
    {[i \in 1..Len(p) |-> Individual(p[i].fitness, sols[i])] :
        sols \in ProductSeq([i \in 1..Len(p) |->
                    IF i < FirstMutated(elitism) THEN {p[i].solution}
                    ELSE MutateSolution(p[i].solution, length)])}

-----------------------------------------------------------------------------
(* new_lyric_ga.py: the word-GA *)

max_length == 30
min_length == 3

\* the words file: W = len(word_dict) words, 0 the boundary symbol; the
\* frequency of each word, the legal pairs and the legal triples
W == 2
word_freq == [w \in 1..(W - 1) |-> 3000]
word_pairs == {<<0, 1>>, <<1, 1>>}
word_triples == {<<0, 1, 1>>}

Words == 0..(W - 1)

\* every solution drawn on its own, converged or not
new_initialise_independent(pop_size, genome_length, converged) ==
    {[i \in 1..pop_size |-> Individual(None, sols[i])] :
        sols \in SeqsOfLen(SeqsOfLen(Words, genome_length), pop_size)}

new_initialise(pop_size, genome_length, converged) ==
    IF converged
    THEN {[i \in 1..pop_size |-> Individual(None, solution)] :
             solution \in SeqsOfLen(Words, genome_length)}
    ELSE {[i \in 1..pop_size |-> Individual(None, sols[i])] :
             sols \in SeqsOfLen(SeqsOfLen(Words, genome_length), pop_size)}

\* the dictionary a set_... function starts from, overridden by the entries of
\* the argument whose key it knows
Override(defaults, given) ==
    [k \in DOMAIN defaults |-> IF k \in DOMAIN given THEN given[k] ELSE defaults[k]]

NoRates == [x \in {} |-> 0]

default_mutation_operator_rates ==
    [insert_rate |-> 0, delete_rate |-> 0, point_rate |-> 100, extend_rate |-> 0]
mutation_operators == <<"insert", "delete", "point", "extend">>
set_mutation_operator_rates(given) ==
    LET d == Override(default_mutation_operator_rates, given)
    IN  <<d.insert_rate, d.delete_rate, d.point_rate, d.extend_rate>>

default_crossover_operator_rates ==
    ("one-pt" :> 0) @@ ("two-pt" :> 0) @@ ("four-pt" :> 0)
crossover_operators == <<"one-pt", "two-pt", "four-pt">>
set_crossover_operator_rates(given) ==
    LET d == Override(default_crossover_operator_rates, given)
    IN  <<d["one-pt"], d["two-pt"], d["four-pt"]>>

default_recipe ==
    [LP |-> 20, IP |-> -25, CP |-> 50, LT |-> 100, IT |-> 0, CT |-> 200,
     MF |-> -10, SF |-> 10, RF |-> 10]
set_fitness_recipe(given) == Override(default_recipe, given)

\* get_fitness walks solution+[0], solution the genotype without one trailing 0
Walk(genotype) ==
    (IF genotype[Len(genotype)] = 0
     THEN SubSeq(genotype, 1, Len(genotype) - 1) ELSE genotype) \o <<0>>

\* previous and pre_previous when the k-th word of the walk is read
Previous(walk, k) == IF k = 1 THEN 0 ELSE walk[k - 1]
PrePrevious(walk, k) == IF k <= 2 THEN 0 ELSE walk[k - 2]

\* the list pairs: one truth value per word of the walk
Pairs(walk) == [k \in 1..Len(walk) |-> <<Previous(walk, k), walk[k]>> \in word_pairs]

\* the list triples: one truth value per word of the walk whose previous word is
\* not 0
RECURSIVE TriplesFrom(_, _)
TriplesFrom(walk, k) ==
    IF k > Len(walk) THEN <<>>
    ELSE (IF Previous(walk, k) # 0
          THEN <<(<<PrePrevious(walk, k), Previous(walk, k), walk[k]>> \in word_triples)>>
          ELSE <<>>) \o TriplesFrom(walk, k + 1)
Triples(walk) == TriplesFrom(walk, 1)

\* the list word_frequencies: the frequency of every word of the walk that is not 0
RECURSIVE FrequenciesFrom(_, _)
FrequenciesFrom(walk, k) ==
    IF k > Len(walk) THEN <<>>
    ELSE (IF walk[k] # 0 THEN <<word_freq[walk[k]]>> ELSE <<>>) \o FrequenciesFrom(walk, k + 1)
Frequencies(walk) == FrequenciesFrom(walk, 1)

CountTrue(b) == Cardinality({k \in 1..Len(b) : b[k]})
Consecutive(b) == Cardinality({k \in 1..(Len(b) - 1) : b[k] /\ b[k + 1]})

RECURSIVE MaxSeq(_)
MaxSeq(s) == IF Len(s) = 1 THEN s[1] ELSE Max2(s[1], MaxSeq(Tail(s)))
RECURSIVE MinSeq(_)
MinSeq(s) == IF Len(s) = 1 THEN s[1] ELSE Min2(s[1], MinSeq(Tail(s)))

\* the largest r with r * r <= n
RECURSIVE ISqrtFrom(_, _)
ISqrtFrom(n, r) == IF (r + 1) * (r + 1) > n THEN r ELSE ISqrtFrom(n, r + 1)

\* sum(f)/len(f), statistics.stdev(f) and max(f)-min(f), to whole frequency
\* units (exact when the words of f have one frequency, as all words of this
\* vocabulary have).  statistics.stdev raises on fewer than two values, which
\* get_fitness catches: 0
Mean(f) == SumSeq(f) \div Len(f)
Stdev(f) ==
    IF Len(f) < 2 THEN 0
    ELSE LET m == Mean(f)
             ss == SumSeq([k \in 1..Len(f) |-> (f[k] - m) * (f[k] - m)])
         IN  ISqrtFrom(ss \div (Len(f) - 1), 0)
Range(f) == MaxSeq(f) - MinSeq(f)

\* get_fitness raises ZeroDivisionError at sum(word_frequencies)/len(word_frequencies)
\* when no word of the genotype is other than 0
FitnessRaises(genotype) == Frequencies(Walk(genotype)) = <<>>

\* the fitness in thousandths: the statistics are scaled by 0.001
new_get_fitness(genotype, fitness_recipe) ==
    LET walk == Walk(genotype)
        pairs == Pairs(walk)
        triples == Triples(walk)
        word_frequencies == Frequencies(walk)
        consecutive_pairs == Consecutive(pairs)
        legal_pairs == CountTrue(pairs)
        illegal_pairs == Len(pairs) - legal_pairs
        consecutive_triples == Consecutive(triples)
        legal_triples == CountTrue(triples)
        illegal_triples == Len(triples) - legal_triples
    IN  Frac(1000 * (fitness_recipe.LP * legal_pairs
                     + fitness_recipe.IP * illegal_pairs
                     + fitness_recipe.CP * consecutive_pairs
                     + fitness_recipe.LT * legal_triples
                     + fitness_recipe.IT * illegal_triples
                     + fitness_recipe.CT * consecutive_triples)
             + fitness_recipe.MF * Mean(word_frequencies)
             + fitness_recipe.SF * Stdev(word_frequencies)
             + fitness_recipe.RF * Range(word_frequencies),
             1000)

\* assess raises when get_fitness raises for an individual
AssessRaises(p) == \E i \in 1..Len(p) : FitnessRaises(p[i].solution)

new_assess(p, fitness_recipe) ==
    sorted_reverse([i \in 1..Len(p) |->
        Individual(Some(new_get_fitness(p[i].solution, fitness_recipe)), p[i].solution)])

\* the word-GA's tournament is the string-GA's, returning a copy of the list
new_tournament(p, competitors) ==
    Compete(p, SubSeq(competitors, 1, Len(competitors) - 1), competitors[Len(competitors)])

\* Python's s[a:b] for 0 <= a, b
Slice(s, a, b) == SubSeq(s, Min2(a, Len(s)) + 1, Min2(b, Len(s)))

\* the offspring each operator can return, over the points random.randint draws
\* one_pt_cross draws point = random.randint(0, min([len(mum), len(dad)]))
OnePtPoints(mum, dad) == 0..Min2(Len(mum), Len(dad))
OnePt(mum, dad, point) == Prefix(mum, point) \o Suffix(dad, point)
one_pt_cross(mum, dad) ==
    {OnePt(mum, dad, point) : point \in OnePtPoints(mum, dad)}

\* mum's tail taken from the lower point
two_pt_cross_from_min(mum, dad) ==
    {Prefix(mum, Min2(point1, point2))
         \o Slice(dad, Min2(point1, point2), Max2(point1, point2))
         \o Suffix(mum, Min2(point1, point2)) :
     point1 \in 0..Len(mum), point2 \in 0..Len(dad)}

two_pt_cross(mum, dad) ==
    {Prefix(mum, Min2(point1, point2))
         \o Slice(dad, Min2(point1, point2), Max2(point1, point2))
         \o Suffix(mum, Max2(point1, point2)) :
     point1 \in 0..Len(mum), point2 \in 0..Len(dad)}

four_pt_cross(mum, dad) ==
    {Prefix(mum, Min2(point1, point4))
         \o Slice(dad, Min2(point2, point3), Max2(point2, point3))
         \o Suffix(mum, Max2(point1, point4)) :
     point1 \in 0..Len(mum), point2 \in 0..Len(dad),
     point3 \in 0..Len(dad), point4 \in 0..Len(mum)}

\* cross raises: the parents are of one length and random.choices raises
CrossRaises(mum, dad, rates) == Len(mum) = Len(dad) /\ ChoicesRaises(rates)

\* the candidate returned whatever its length
CrossEvents_unchecked(mum, dad, operators, rates) ==
    IF Len(mum) # Len(dad) THEN {[type |-> "none", new |-> mum, result |-> mum]}
    ELSE UNION {
        LET news == CASE crossover_type = "one-pt" -> one_pt_cross(mum, dad)
                      [] crossover_type = "two-pt" -> two_pt_cross(mum, dad)
                      [] crossover_type = "four-pt" -> four_pt_cross(mum, dad)
        IN  {[type |-> crossover_type, new |-> new, result |-> new] : new \in news} :
        crossover_type \in Choices(operators, rates)}

\* what cross can do: [type, new, result], the operator drawn ("none" for
\* parents of different lengths, which are not crossed), its offspring new and
\* the genome returned
CrossEvents(mum, dad, operators, rates) ==
    IF Len(mum) # Len(dad) THEN {[type |-> "none", new |-> mum, result |-> mum]}
    ELSE UNION {
        LET news == CASE crossover_type = "one-pt" -> one_pt_cross(mum, dad)
                      [] crossover_type = "two-pt" -> two_pt_cross(mum, dad)
                      [] crossover_type = "four-pt" -> four_pt_cross(mum, dad)
        IN  {[type |-> crossover_type, new |-> new,
              result |-> IF min_length <= Len(new) /\ Len(new) <= max_length
                         THEN new ELSE mum] : new \in news} :
        crossover_type \in Choices(operators, rates)}

\* the genomes cross can return
new_cross(mum, dad, operators, rates) ==
    {e.result : e \in CrossEvents(mum, dad, operators, rates)}

\* the solutions tournament(pop, tournament_size) can return
NewTournamentSolutions(p, tournament_size) ==
    {p[new_tournament(p, c)].solution : c \in Samples(Len(p), tournament_size)}

\* the solution one pass of breed's loop can append
NewBreedPass(p, tournament_size, crossover, operators, rates) ==
    LET mums == NewTournamentSolutions(p, tournament_size)
    IN  (IF TRUE \in RandomBelow(crossover, 100)
         THEN UNION {IF CrossRaises(mum, dad, rates) THEN {}
                     ELSE new_cross(mum, dad, operators, rates) :
                        mum \in mums, dad \in mums}
         ELSE {})
        \cup (IF FALSE \in RandomBelow(crossover, 100) THEN mums ELSE {})

\* a pass of breed's loop can raise in cross
NewBreedPassRaises(p, tournament_size, crossover, rates) ==
    /\ TRUE \in RandomBelow(crossover, 100)
    /\ \E mum \in NewTournamentSolutions(p, tournament_size) :
       \E dad \in NewTournamentSolutions(p, tournament_size) : CrossRaises(mum, dad, rates)

\* the offspring populations breed can return
new_breed(p, tournament_size, crossover, elitism, operators, rates) ==
    LET first == Elite(p, elitism)
        passes == IF Len(p) > Len(first) THEN Len(p) - Len(first) ELSE 0
    IN  IF passes > 0 /\ SampleRaises(Len(p), tournament_size) THEN {}
        ELSE {first \o [i \in 1..passes |-> Individual(None, rest[i])] :
                 rest \in SeqsOfLen(
                    NewBreedPass(p, tournament_size, crossover, operators, rates), passes)}

\* sum(random.random() < 1.0/length for _ in range(length)): the values the sum
\* can take (for length 1 every draw is below 1.0)
Hits(length) ==
    {k \in 0..length : /\ (k > 0 => TRUE \in RandomBelow(1, length))
                       /\ (k < length => FALSE \in RandomBelow(1, length))}

\* up to two mutations for a genome of at most min_length words
MutationCounts_two_when_short(length) ==
    {Min2(IF length <= min_length THEN 2 ELSE 1, hits) : hits \in Hits(length)}

\* m = min(1, sum(...)): the values m can take
MutationCounts(length) == {Min2(1, hits) : hits \in Hits(length)}

\* insert guarded by <= max_length in place of < max_length
Mutation_insert_at_max(solution, mutation_type) ==
    LET length == Len(solution)
        Applied(sols) == {[type |-> mutation_type, applied |-> TRUE, solution |-> x] : x \in sols}
        Skipped == {[type |-> mutation_type, applied |-> FALSE, solution |-> solution]}
    IN  IF mutation_type = "point"
        THEN Applied({[solution EXCEPT ![w + 1] = word] : w \in 0..(length - 1), word \in Words})
        ELSE IF mutation_type = "insert" /\ length <= max_length
        THEN Applied({Prefix(solution, w) \o <<word>> \o Suffix(solution, w) :
                         w \in 0..length, word \in Words})
        ELSE IF mutation_type = "extend" /\ length < max_length - 2 * length
        THEN Applied({solution \o <<0>> \o tail : tail \in SeqsOfLen(Words, length)})
        ELSE IF mutation_type = "delete" /\ length > min_length
        THEN Applied({Prefix(solution, w) \o Suffix(solution, w + 1) : w \in 0..(length - 1)})
        ELSE Skipped

\* delete guarded by >= min_length in place of > min_length
Mutation_delete_at_min(solution, mutation_type) ==
    LET length == Len(solution)
        Applied(sols) == {[type |-> mutation_type, applied |-> TRUE, solution |-> x] : x \in sols}
        Skipped == {[type |-> mutation_type, applied |-> FALSE, solution |-> solution]}
    IN  IF mutation_type = "point"
        THEN Applied({[solution EXCEPT ![w + 1] = word] : w \in 0..(length - 1), word \in Words})
        ELSE IF mutation_type = "insert" /\ length < max_length
        THEN Applied({Prefix(solution, w) \o <<word>> \o Suffix(solution, w) :
                         w \in 0..length, word \in Words})
        ELSE IF mutation_type = "extend" /\ length < max_length - 2 * length
        THEN Applied({solution \o <<0>> \o tail : tail \in SeqsOfLen(Words, length)})
        ELSE IF mutation_type = "delete" /\ length >= min_length
        THEN Applied({Prefix(solution, w) \o Suffix(solution, w + 1) : w \in 0..(length - 1)})
        ELSE Skipped

\* what one mutation of the given type makes of a solution of the given length:
\* [type, applied, solution]
Mutation(solution, mutation_type) ==
    LET length == Len(solution)
        Applied(sols) == {[type |-> mutation_type, applied |-> TRUE, solution |-> x] : x \in sols}
        Skipped == {[type |-> mutation_type, applied |-> FALSE, solution |-> solution]}
    IN  IF mutation_type = "point"
        THEN Applied({[solution EXCEPT ![w + 1] = word] : w \in 0..(length - 1), word \in Words})
        ELSE IF mutation_type = "insert" /\ length < max_length
        THEN Applied({Prefix(solution, w) \o <<word>> \o Suffix(solution, w) :
                         w \in 0..length, word \in Words})
        ELSE IF mutation_type = "extend" /\ length < max_length - 2 * length
        THEN Applied({solution \o <<0>> \o tail : tail \in SeqsOfLen(Words, length)})
        ELSE IF mutation_type = "delete" /\ length > min_length
        THEN Applied({Prefix(solution, w) \o Suffix(solution, w + 1) : w \in 0..(length - 1)})
        ELSE Skipped

\* the loop for _ in range(m) on one child: [type, applied, solution] of its
\* last pass, type "none" when m = 0.  m <= 1, so length is
\* len(child["solution"]) in every pass
RECURSIVE MutatePasses(_, _, _, _)
MutatePasses(solution, m, operators, rates) ==
    IF m = 0 THEN {[type |-> "none", applied |-> FALSE, solution |-> solution]}
    ELSE UNION {IF m = 1 THEN {e} ELSE MutatePasses(e.solution, m - 1, operators, rates) :
                   e \in UNION {Mutation(solution, mutation_type) :
                                   mutation_type \in Choices(operators, rates)}}

\* what mutate can make of one child
MutateChild(solution, operators, rates) ==
    UNION {MutatePasses(solution, m, operators, rates) :
              m \in MutationCounts(Len(solution))}

\* mutate can raise in random.choices for a child
NewMutateRaises(p, elitism, rates) ==
    /\ ChoicesRaises(rates)
    /\ \E i \in FirstMutated(elitism)..Len(p) : 1 \in MutationCounts(Len(p[i].solution))

\* what mutate can make of the population: per individual [type, applied, solution]
MutateEvents(p, elitism, operators, rates) ==
    ProductSeq([i \in 1..Len(p) |->
        IF i < FirstMutated(elitism)
        THEN {[type |-> "elite", applied |-> FALSE, solution |-> p[i].solution]}
        ELSE MutateChild(p[i].solution, operators, rates)])

\* the population mutate returns after the given events
Mutated(p, events) ==
    [i \in 1..Len(p) |-> Individual(p[i].fitness, events[i].solution)]

\* the populations mutate can return
new_mutate(p, elitism, operators, rates) ==
    {Mutated(p, events) : events \in MutateEvents(p, elitism, operators, rates)}

-----------------------------------------------------------------------------
(* do_the_ga: the arguments of a run *)

\* crossover, in hundredths
Crossovers == {0, 50, 100}

\* length, for a run of the string-GA without a target
Lengths == {1, 2}

\* the operator rates of a run of the word-GA
MutationRates == {NoRates, [point_rate |-> 0]}
CrossoverRates == {NoRates, ("one-pt" :> 50) @@ ("two-pt" :> 50)}

\* length and pop_size of a run of the word-GA
WordLengths == {3}
WordPopSizes == {1, 2}

\* pressure ranges up to pop_size, one more than the documented pop_size-1
StringConfigs ==
    [pop_size : 1..MaxPop, pressure : 0..MaxPop, crossover : Crossovers,
     elitism : BOOLEAN, max_gen : 0..MaxGen, target : {<<>>, Target},
     length : Lengths, mutation_operator_rates : {NoRates},
     crossover_operator_rates : {NoRates}, fitness_recipe : {NoRates}]

WordConfigs ==
    [pop_size : WordPopSizes, pressure : 0..2, crossover : Crossovers,
     elitism : BOOLEAN, max_gen : 0..MaxGen, target : {<<>>},
     length : WordLengths, mutation_operator_rates : MutationRates,
     crossover_operator_rates : CrossoverRates, fitness_recipe : {NoRates}]

\* what do_the_ga derives from its arguments
tournament_size == cfg.pressure + 1
length == IF variant = "string" /\ cfg.target # <<>> THEN Len(cfg.target) ELSE cfg.length
lines ==
    IF cfg.target # <<>> THEN <<cfg.target>>
    ELSE SelectSeq(lyrics, LAMBDA line : Len(line) = cfg.length)
mutation_rates == set_mutation_operator_rates(cfg.mutation_operator_rates)
crossover_rates == set_crossover_operator_rates(cfg.crossover_operator_rates)
fitness_recipe == set_fitness_recipe(cfg.fitness_recipe)

Raise(e) ==
    /\ pc' = "error"
    /\ err' = e
    /\ UNCHANGED <<variant, cfg, pop, generation, best, call>>

-----------------------------------------------------------------------------
(* do_the_ga of lyric_ga.py *)

S_Initialise ==
    /\ variant = "string" /\ pc = "initialise"
    /\ \E converged \in BOOLEAN :
           pop' \in initialise(cfg.pop_size, length, converged)
    /\ pc' = "assess"
    /\ UNCHANGED <<variant, cfg, generation, best, err, call>>

\* the population mutated once more after its assessment
S_Assess_then_mutate ==
    /\ variant = "string" /\ pc = "assess"
    /\ pop' \in mutate(assess(pop, length, lines), FALSE, length)
    /\ best' = pop'[1]
    /\ pc' = "while"
    /\ UNCHANGED <<variant, cfg, generation, err, call>>

\* pop = assess(pop, length, lines); best = pop[0]
S_Assess ==
    /\ variant = "string" /\ pc = "assess"
    /\ pop' = assess(pop, length, lines)
    /\ best' = pop'[1]
    /\ pc' = "while"
    /\ UNCHANGED <<variant, cfg, generation, err, call>>

\* the loop without its test of the best fitness
S_While_no_exit ==
    /\ variant = "string" /\ pc = "while"
    /\ IF generation < cfg.max_gen
       THEN generation' = generation + 1 /\ pc' = "breed"
       ELSE generation' = generation /\ pc' = "done"
    /\ UNCHANGED <<variant, cfg, pop, best, err, call>>

\* while generation < max_gen and best["fitness"] < 1: generation += 1
S_While ==
    /\ variant = "string" /\ pc = "while"
    /\ IF generation < cfg.max_gen /\ FLt(Fit(best), Frac(1, 1))
       THEN generation' = generation + 1 /\ pc' = "breed"
       ELSE generation' = generation /\ pc' = "done"
    /\ UNCHANGED <<variant, cfg, pop, best, err, call>>

S_Breed ==
    /\ variant = "string" /\ pc = "breed"
    /\ \/ /\ BreedRaises(pop, tournament_size, cfg.elitism)
          /\ Raise("ValueError_sample")
       \/ /\ pop' \in breed(pop, tournament_size, cfg.crossover, cfg.elitism)
          /\ pc' = "mutate"
          /\ UNCHANGED <<variant, cfg, generation, best, err, call>>

S_Mutate ==
    /\ variant = "string" /\ pc = "mutate"
    /\ pop' \in mutate(pop, cfg.elitism, length)
    /\ pc' = "assess"
    /\ UNCHANGED <<variant, cfg, generation, best, err, call>>

-----------------------------------------------------------------------------
(* do_the_ga of new_lyric_ga.py *)

W_Initialise ==
    /\ variant = "word" /\ pc = "initialise"
    /\ \E converged \in BOOLEAN :
           pop' \in new_initialise(cfg.pop_size, length, converged)
    /\ pc' = "assess"
    /\ UNCHANGED <<variant, cfg, generation, best, err, call>>

\* pop = assess(pop, ...); best = pop[0]
W_Assess ==
    /\ variant = "word" /\ pc = "assess"
    /\ IF AssessRaises(pop)
       THEN Raise("ZeroDivisionError")
       ELSE /\ pop' = new_assess(pop, fitness_recipe)
            /\ best' = pop'[1]
            /\ pc' = "while"
            /\ UNCHANGED <<variant, cfg, generation, err, call>>

\* while generation < max_gen: generation += 1
W_While ==
    /\ variant = "word" /\ pc = "while"
    /\ IF generation < cfg.max_gen
       THEN generation' = generation + 1 /\ pc' = "breed"
       ELSE generation' = generation /\ pc' = "done"
    /\ UNCHANGED <<variant, cfg, pop, best, err, call>>

W_Breed ==
    /\ variant = "word" /\ pc = "breed"
    /\ \/ /\ BreedRaises(pop, tournament_size, cfg.elitism)
          /\ Raise("ValueError_sample")
       \/ /\ ~BreedRaises(pop, tournament_size, cfg.elitism)
          /\ Len(Elite(pop, cfg.elitism)) < Len(pop)
          /\ NewBreedPassRaises(pop, tournament_size, cfg.crossover, crossover_rates)
          /\ Raise("ValueError_choices")
       \/ /\ pop' \in new_breed(pop, tournament_size, cfg.crossover, cfg.elitism,
                                crossover_operators, crossover_rates)
          /\ pc' = "mutate"
          /\ UNCHANGED <<variant, cfg, generation, best, err, call>>

W_Mutate ==
    /\ variant = "word" /\ pc = "mutate"
    /\ \/ /\ NewMutateRaises(pop, cfg.elitism, mutation_rates)
          /\ Raise("ValueError_choices")
       \/ /\ pop' \in new_mutate(pop, cfg.elitism, mutation_operators, mutation_rates)
          /\ pc' = "assess"
          /\ UNCHANGED <<variant, cfg, generation, best, err, call>>

-----------------------------------------------------------------------------
(* The runs of do_the_ga, of either file, from every configuration *)

Init ==
    /\ variant \in {"string", "word"}
    /\ cfg \in IF variant = "string" THEN StringConfigs ELSE WordConfigs
    /\ pop = <<>>
    /\ generation = 0
    /\ best = NoIndividual
    /\ pc = "initialise"
    /\ err = "none"
    /\ call = NoCall

Next ==
    \/ S_Initialise \/ S_Assess \/ S_While \/ S_Breed \/ S_Mutate
    \/ W_Initialise \/ W_Assess \/ W_While \/ W_Breed \/ W_Mutate

Spec == Init /\ [][Next]_vars

-----------------------------------------------------------------------------
(* The runs of do_the_ga of new_lyric_ga.py whose operators change the length *)
(* of the genomes, from the point at which initialise has returned a          *)
(* population of the genome 1, ..., 1 (converged, or pop_size 1).             *)

AllMutations ==
    [insert_rate |-> 1, delete_rate |-> 1, point_rate |-> 1, extend_rate |-> 1]
DeleteOnly == [delete_rate |-> 1, point_rate |-> 0]
FourPtOnly == ("four-pt" :> 1)

\* runs of two generations of mutation alone, from the shortest and the longest
\* genomes
MutationRuns ==
    [pop_size : {1}, pressure : {0}, crossover : {0}, elitism : {FALSE},
     max_gen : {2}, target : {<<>>},
     length : {min_length, min_length + 1, max_length - 1, max_length},
     mutation_operator_rates : {AllMutations},
     crossover_operator_rates : {NoRates}, fitness_recipe : {NoRates}]

\* runs of four-point crossover and deletion, some of them with a tournament
\* larger than the population or with rates that sum to zero
CrossoverRuns ==
    [pop_size : {2}, pressure : {0, 2}, crossover : {100}, elitism : BOOLEAN,
     max_gen : {MaxGen}, target : {<<>>},
     length : {min_length},
     mutation_operator_rates : {DeleteOnly, [point_rate |-> 0]},
     crossover_operator_rates : {FourPtOnly, NoRates}, fitness_recipe : {NoRates}]

LengthInit ==
    /\ variant = "word"
    /\ cfg \in MutationRuns \cup CrossoverRuns
    /\ pop = [i \in 1..cfg.pop_size |-> Individual(None, [k \in 1..cfg.length |-> 1])]
    /\ generation = 0
    /\ best = NoIndividual
    /\ pc = "assess"
    /\ err = "none"
    /\ call = NoCall

LengthNext == W_Assess \/ W_While \/ W_Breed \/ W_Mutate

LengthSpec == LengthInit /\ [][LengthNext]_vars

-----------------------------------------------------------------------------
(* One generation of do_the_ga of new_lyric_ga.py with the solutions as list  *)
(* objects: the solution of an individual is the position in heap of its      *)
(* list, a copy or a new list is a new position of heap, and an assignment to *)
(* an item of a list changes heap at the position of that list.               *)

\* list.copy(), and a list built by slicing and +: the heap with the new list and
\* the position of the new list
Copy(heap, ref) == [heap |-> Append(heap, heap[ref]), ref |-> Len(heap) + 1]

\* the population with the lists in place of their positions
Deref(heap, p) == [i \in 1..Len(p) |-> Individual(p[i].fitness, heap[p[i].solution])]

\* initialise: solution is a list of its own, and every individual gets
\* solution.copy()
ref_initialise(pop_size, genome_length, converged) ==
    IF converged
    THEN {[heap |-> <<solution>> \o [i \in 1..pop_size |-> solution],
           pop |-> [i \in 1..pop_size |-> Individual(None, i + 1)]] :
             solution \in SeqsOfLen(Words, genome_length)}
    ELSE {[heap |-> [k \in 1..(2 * pop_size) |-> sols[(k + 1) \div 2]],
           pop |-> [i \in 1..pop_size |-> Individual(None, 2 * i)]] :
             sols \in SeqsOfLen(SeqsOfLen(Words, genome_length), pop_size)}

\* assess sets the fitness of each dictionary and sorts them
ref_assess(heap, p, recipe) ==
    sorted_reverse([i \in 1..Len(p) |->
        Individual(Some(new_get_fitness(heap[p[i].solution], recipe)), p[i].solution)])

\* the winner's list itself returned
ref_tournament_no_copy(heap, p, competitors) ==
    [heap |-> heap, ref |-> p[new_tournament(p, competitors)].solution]

\* tournament returns winner["solution"].copy()
ref_tournament(heap, p, competitors) ==
    Copy(heap, p[new_tournament(p, competitors)].solution)

\* cross returns the list mum, or the list new its operator built
ref_cross(heap, mum, dad, operators, rates) ==
    {IF e.type = "none" THEN [heap |-> heap, ref |-> mum]
     ELSE [heap |-> Append(heap, e.new),
           ref |-> IF min_length <= Len(e.new) /\ Len(e.new) <= max_length
                   THEN Len(heap) + 1 ELSE mum] :
        e \in CrossEvents(heap[mum], heap[dad], operators, rates)}

\* one pass of breed's loop, from [heap, offspring]
RefBreedPass(st, p, size, crossover, operators, rates) ==
    UNION {
        LET mum == ref_tournament(st.heap, p, c1)
        IN  (IF TRUE \in RandomBelow(crossover, 100)
             THEN UNION {
                    LET dad == ref_tournament(mum.heap, p, c2)
                    IN  {[heap |-> x.heap,
                          offspring |-> Append(st.offspring, Individual(None, x.ref))] :
                            x \in ref_cross(dad.heap, mum.ref, dad.ref, operators, rates)} :
                    c2 \in Samples(Len(p), size)}
             ELSE {})
            \cup (IF FALSE \in RandomBelow(crossover, 100)
                  THEN {[heap |-> mum.heap,
                         offspring |-> Append(st.offspring, Individual(None, mum.ref))]}
                  ELSE {}) :
        c1 \in Samples(Len(p), size)}

RECURSIVE RefBreedLoop(_, _, _, _, _, _)
RefBreedLoop(st, p, size, crossover, operators, rates) ==
    IF Len(st.offspring) >= Len(p) THEN {st}
    ELSE UNION {RefBreedLoop(next, p, size, crossover, operators, rates) :
                   next \in RefBreedPass(st, p, size, crossover, operators, rates)}

\* breed: the heaps and offspring populations it can leave
ref_breed(heap, p, size, crossover, elitism, operators, rates) ==
    LET elite == Copy(heap, p[1].solution)
        first == IF elitism
                 THEN [heap |-> elite.heap, offspring |-> <<Individual(None, elite.ref)>>]
                 ELSE [heap |-> heap, offspring |-> <<>>]
    IN  RefBreedLoop(first, p, size, crossover, operators, rates)

\* mutate on one child: point and extend change the child's list in place,
\* insert and delete bind a new list to the child
ref_mutate_child(heap, ref, operators, rates) ==
    {IF e.applied /\ e.type \in {"point", "extend"}
     THEN [heap |-> [heap EXCEPT ![ref] = e.solution], ref |-> ref,
           type |-> e.type, applied |-> TRUE]
     ELSE IF e.applied
     THEN [heap |-> Append(heap, e.solution), ref |-> Len(heap) + 1,
           type |-> e.type, applied |-> TRUE]
     ELSE [heap |-> heap, ref |-> ref, type |-> e.type, applied |-> FALSE] :
        e \in MutateChild(heap[ref], operators, rates)}

AllCrossovers == ("one-pt" :> 1) @@ ("two-pt" :> 1) @@ ("four-pt" :> 1)

OnePtOnly == ("one-pt" :> 1)

\* one generation from a converged population: without crossover under every
\* mutation operator, and with crossover under every crossover operator; one
\* generation from independent genomes under one-pt crossover, and two without
\* crossover and with elitism.  Crossover goes with elitism and the default mutation operator
\* (point).
AliasConfigs ==
    {c \in [pop_size : {2}, pressure : {0, 1}, crossover : {0, 100}, elitism : BOOLEAN,
            max_gen : {1, 2}, target : {<<>>}, length : {min_length}, converged : BOOLEAN,
            mutation_operator_rates : {NoRates, AllMutations},
            crossover_operator_rates : {AllCrossovers, OnePtOnly},
            fitness_recipe : {NoRates}] :
        /\ (c.mutation_operator_rates = AllMutations) = (c.converged /\ c.crossover = 0)
        /\ (c.crossover_operator_rates = AllCrossovers) = (c.converged /\ c.crossover = 100)
        /\ (c.crossover = 100 => c.elitism)
        /\ (c.max_gen = 2) = (~c.converged /\ c.crossover = 0 /\ c.elitism)}

A_Initialise ==
    /\ variant = "alias" /\ pc = "initialise"
    /\ \E r \in ref_initialise(cfg.pop_size, cfg.length, cfg.converged) :
          /\ pop' = r.pop
          /\ call' = [call EXCEPT !.heap = r.heap]
    /\ pc' = "assess"
    /\ UNCHANGED <<variant, cfg, generation, best, err>>

A_Assess ==
    /\ variant = "alias" /\ pc = "assess"
    /\ IF AssessRaises(Deref(call.heap, pop))
       THEN Raise("ZeroDivisionError")
       ELSE /\ pop' = ref_assess(call.heap, pop, fitness_recipe)
            /\ best' = pop'[1]
            /\ pc' = IF generation < cfg.max_gen THEN "breed" ELSE "done"
            /\ UNCHANGED <<variant, cfg, generation, err, call>>

\* generation += 1; breed: call.offspring is what breed returns, and pop keeps
\* the parents until mutate has returned
A_Breed ==
    /\ variant = "alias" /\ pc = "breed"
    /\ generation' = generation + 1
    /\ \E r \in ref_breed(call.heap, pop, tournament_size, cfg.crossover, cfg.elitism,
                          crossover_operators, crossover_rates) :
          call' = [call EXCEPT !.heap = r.heap, !.offspring = r.offspring,
                               !.i = FirstMutated(cfg.elitism)]
    /\ pc' = "mutate"
    /\ UNCHANGED <<variant, cfg, pop, best, err>>

\* one pass of mutate's loop over pop[elitism:], on the child at call.i; after
\* the last pass the offspring are the population
A_Mutate ==
    /\ variant = "alias" /\ pc = "mutate"
    /\ IF call.i > Len(call.offspring)
       THEN /\ pop' = call.offspring
            /\ call' = [call EXCEPT !.offspring = <<>>, !.i = 0,
                                    !.type = "none", !.applied = FALSE]
            /\ pc' = "assess"
       ELSE /\ \E m \in ref_mutate_child(call.heap, call.offspring[call.i].solution,
                                         mutation_operators, mutation_rates) :
                  call' = [call EXCEPT !.heap = m.heap,
                                       !.offspring[call.i].solution = m.ref,
                                       !.i = call.i + 1,
                                       !.type = m.type, !.applied = m.applied]
            /\ pc' = "mutate"
            /\ UNCHANGED pop
    /\ UNCHANGED <<variant, cfg, generation, best, err>>

AliasInit ==
    /\ variant = "alias"
    /\ cfg \in AliasConfigs
    /\ pop = <<>>
    /\ generation = 0
    /\ best = NoIndividual
    /\ pc = "initialise"
    /\ err = "none"
    /\ call = [fn |-> "heap", heap |-> <<>>, offspring |-> <<>>, i |-> 0,
               type |-> "none", applied |-> FALSE]

AliasNext == A_Initialise \/ A_Assess \/ A_Breed \/ A_Mutate

AliasSpec == AliasInit /\ [][AliasNext]_vars

-----------------------------------------------------------------------------
(* The operators applied on their own, to inputs drawn from bounded sets; call *)
(* records the arguments, the random draws and the result.                  *)

\* tournament of lyric_ga.py on an assessed population
U_Tournament ==
    /\ variant = "unit" /\ pc = "unit"
    /\ pc' = "called"
    /\ \E n \in 1..MaxUnitPop :
       \E p0 \in initialise(n, Len(Target), FALSE) :
       \E p \in {assess(p0, Len(Target), <<Target>>)} :
       \E k \in 1..n :
       \E competitors \in Samples(n, k) :
           call' = [fn |-> "tournament", pop |-> p, tournament_size |-> k,
                    competitors |-> competitors,
                    solution |-> p[tournament(p, competitors)].solution]
    /\ UNCHANGED <<variant, cfg, pop, generation, best, err>>

\* tournament of new_lyric_ga.py on an assessed population
U_NewTournament ==
    /\ variant = "unit" /\ pc = "unit"
    /\ pc' = "called"
    /\ \E n \in 1..MaxUnitPop :
       \E p0 \in new_initialise(n, min_length, FALSE) :
           /\ ~AssessRaises(p0)
           /\ \E p \in {new_assess(p0, default_recipe)} :
              \E k \in 1..n :
              \E competitors \in Samples(n, k) :
                  call' = [fn |-> "new_tournament", pop |-> p, tournament_size |-> k,
                           competitors |-> competitors,
                           solution |-> p[new_tournament(p, competitors)].solution]
    /\ UNCHANGED <<variant, cfg, pop, generation, best, err>>

\* the populations mutate of new_lyric_ga.py is applied to: one offspring, behind
\* an elite individual when elitism is True
UnitGenomes == {[i \in 1..n |-> word] : n \in 1..MaxUnitLen, word \in Words}
UnitRates == {[insert_rate |-> 1, delete_rate |-> 1, point_rate |-> 1, extend_rate |-> 1]}

U_Mutate ==
    /\ variant = "unit" /\ pc = "unit"
    /\ pc' = "called"
    /\ \E solution \in UnitGenomes :
       \E elitism \in BOOLEAN :
       \E given \in UnitRates :
           LET p == Elite(<<Individual(None, <<1, 1, 1>>)>>, elitism)
                        \o <<Individual(None, solution)>>
               rates == set_mutation_operator_rates(given)
           IN  \E events \in MutateEvents(p, elitism, mutation_operators, rates) :
                   call' = [fn |-> "mutate", pop |-> p, elitism |-> elitism,
                            events |-> events, result |-> Mutated(p, events)]
    /\ UNCHANGED <<variant, cfg, pop, generation, best, err>>

\* get_fitness of lyric_ga.py on a solution and lines of one length
UnitLines(n) ==
    UNION {SeqsOfLen(SeqsOfLen(alphabet, n), k) : k \in 0..2}

U_GetFitness ==
    /\ variant = "unit" /\ pc = "unit"
    /\ pc' = "called"
    /\ \E n \in 1..2 :
       \E solution \in SeqsOfLen(alphabet, n) :
       \E refs \in UnitLines(n) :
           call' = [fn |-> "get_fitness", solution |-> solution, lines |-> refs,
                    length |-> n,
                    scores |-> [k \in 1..Len(refs) |-> match(solution, refs[k])],
                    fitness |-> get_fitness(solution, refs, n)]
    /\ UNCHANGED <<variant, cfg, pop, generation, best, err>>

\* get_fitness of new_lyric_ga.py on a genotype, with the default recipe or
\* with the recipe of the legal pairs alone
LegalPairsOnly ==
    [LP |-> 1, IP |-> 0, CP |-> 0, LT |-> 0, IT |-> 0, CT |-> 0,
     MF |-> 0, SF |-> 0, RF |-> 0]
UnitRecipes == {NoRates, LegalPairsOnly}
UnitGenotypes ==
    SeqsOfLen(Words, min_length) \cup SeqsOfLen(Words, min_length + 1)
    \cup {[i \in 1..max_length |-> word] : word \in Words}

U_NewGetFitness ==
    /\ variant = "unit" /\ pc = "unit"
    /\ pc' = "called"
    /\ \E genotype \in UnitGenotypes :
       \E given \in UnitRecipes :
           LET recipe == set_fitness_recipe(given)
           IN  call' = [fn |-> "new_get_fitness", genotype |-> genotype,
                        recipe |-> recipe,
                        raised |-> FitnessRaises(genotype),
                        fitness |-> IF FitnessRaises(genotype) THEN None
                                    ELSE Some(new_get_fitness(genotype, recipe))]
    /\ UNCHANGED <<variant, cfg, pop, generation, best, err>>

\* cross of lyric_ga.py on two strings of one length
U_Cross ==
    /\ variant = "unit" /\ pc = "unit"
    /\ pc' = "called"
    /\ \E n \in 1..2 :
       \E mum \in SeqsOfLen(alphabet, n) :
       \E dad \in SeqsOfLen(alphabet, n) :
       \E point \in CrossPoints(mum) :
           call' = [fn |-> "cross", mum |-> mum, dad |-> dad, point |-> point,
                    points |-> CrossPoints(mum), result |-> cross(mum, dad, point)]
    /\ UNCHANGED <<variant, cfg, pop, generation, best, err>>

\* one_pt_cross of new_lyric_ga.py on two genomes
UnitParents == UNION {SeqsOfLen(Words, n) : n \in 1..3}

U_OnePtCross ==
    /\ variant = "unit" /\ pc = "unit"
    /\ pc' = "called"
    /\ \E mum \in UnitParents :
       \E dad \in UnitParents :
       \E point \in OnePtPoints(mum, dad) :
           call' = [fn |-> "one_pt_cross", mum |-> mum, dad |-> dad, point |-> point,
                    points |-> OnePtPoints(mum, dad), result |-> OnePt(mum, dad, point)]
    /\ UNCHANGED <<variant, cfg, pop, generation, best, err>>

\* cross of new_lyric_ga.py on two genomes, of one length or not
UnitCrossLen == 16
UnitCrossParents ==
    SeqsOfLen(Words, min_length)
    \cup {[i \in 1..n |-> word] : n \in {min_length + 1, UnitCrossLen}, word \in Words}
UnitCrossRates ==
    {NoRates, ("one-pt" :> 1) @@ ("two-pt" :> 1) @@ ("four-pt" :> 1)}

U_NewCross ==
    /\ variant = "unit" /\ pc = "unit"
    /\ pc' = "called"
    /\ \E mum \in UnitCrossParents :
       \E dad \in UnitCrossParents :
       \E given \in UnitCrossRates :
           LET rates == set_crossover_operator_rates(given)
           IN  /\ ~CrossRaises(mum, dad, rates)
               /\ \E lengths \in {IF Len(mum) = Len(dad)
                                   THEN {Len(new) : new \in four_pt_cross(mum, dad)}
                                   ELSE {}} :
                  \E e \in CrossEvents(mum, dad, crossover_operators, rates) :
                      call' = [fn |-> "new_cross", mum |-> mum, dad |-> dad,
                               rates |-> rates, type |-> e.type, new |-> e.new,
                               result |-> e.result, four_pt_lengths |-> lengths]
    /\ UNCHANGED <<variant, cfg, pop, generation, best, err>>

\* initialise of lyric_ga.py
U_Initialise ==
    /\ variant = "unit" /\ pc = "unit"
    /\ pc' = "called"
    /\ \E pop_size \in 0..MaxUnitPop :
       \E n \in 0..2 :
       \E converged \in BOOLEAN :
       \E p \in initialise(pop_size, n, converged) :
           call' = [fn |-> "initialise", pop_size |-> pop_size, length |-> n,
                    converged |-> converged, symbols |-> alphabet, result |-> p]
    /\ UNCHANGED <<variant, cfg, pop, generation, best, err>>

\* initialise of new_lyric_ga.py
U_NewInitialise ==
    /\ variant = "unit" /\ pc = "unit"
    /\ pc' = "called"
    /\ \E pop_size \in 0..MaxUnitPop :
       \E n \in {0, min_length} :
       \E converged \in BOOLEAN :
       \E p \in new_initialise(pop_size, n, converged) :
           call' = [fn |-> "new_initialise", pop_size |-> pop_size, length |-> n,
                    converged |-> converged, symbols |-> Words, result |-> p]
    /\ UNCHANGED <<variant, cfg, pop, generation, best, err>>

UnitInit ==
    /\ variant = "unit"
    /\ cfg = NoRates
    /\ pop = <<>>
    /\ generation = 0
    /\ best = NoIndividual
    /\ pc = "unit"
    /\ err = "none"
    /\ call = NoCall

UnitNext ==
    \/ U_Tournament \/ U_NewTournament \/ U_Mutate
    \/ U_GetFitness \/ U_NewGetFitness
    \/ U_Cross \/ U_OnePtCross \/ U_NewCross
    \/ U_Initialise \/ U_NewInitialise

UnitSpec == UnitInit /\ [][UnitNext]_vars

-----------------------------------------------------------------------------
(* Properties *)

Assessed(p) == \A i \in 1..Len(p) : p[i].fitness # None
SortedDescending(p) == \A i \in 1..(Len(p) - 1) : FLe(Fit(p[i + 1]), Fit(p[i]))

\* C1: the population assess returned (the initial one and every generation's,
\* in both files) is sorted descending by fitness: each fitness is >= the
\* next, and no individual is fitter than the one at index 0.
C1_AssessSorted ==
    pc \in {"while", "breed", "done"} =>
        /\ Assessed(pop)
        /\ SortedDescending(pop)
        /\ \A i \in 1..Len(pop) : FLe(Fit(pop[i]), Fit(pop[1]))

C1_Witness ==
    /\ variant = "word" /\ pc = "while" /\ generation = 2 /\ Len(pop) = 2
    /\ FLt(Fit(pop[2]), Fit(pop[1]))

\* C2: with elitism, the best fitness of the population assessed in a
\* generation is >= the best fitness of the generation before (held by best
\* until the assessment), in both files.
C2_ElitismMonotone ==
    [][(cfg.elitism /\ generation >= 1 /\ pc = "assess" /\ pc' = "while")
          => FLe(Fit(best), Fit(best'))]_vars

C2_Witness ==
    /\ cfg.elitism /\ pc = "while" /\ generation = 2 /\ Len(pop) = 2
    /\ FLt(Fit(pop[2]), Fit(pop[1]))

\* the steps a run of do_the_ga has left, at most
Rank ==
    5 * (cfg.max_gen - generation)
    + (CASE pc = "initialise" -> 3
         [] pc = "breed" -> 4
         [] pc = "mutate" -> 3
         [] pc = "assess" -> 2
         [] pc = "while" -> 1
         [] OTHER -> 0)

One == Frac(1, 1)

\* C3: the string-GA driver terminates (every step lowers Rank, which is never
\* negative), the generation counter never exceeds max_gen, no generation runs
\* once the best fitness is 1.0, the loop is left at the first test at which
\* generation = max_gen or the best fitness is 1.0, and at the end one of the
\* two holds.
C3_StringTermination ==
    /\ [](variant = "string" =>
            /\ generation <= cfg.max_gen
            /\ Rank >= 0
            /\ (generation >= 1 /\ pc \in {"breed", "mutate", "assess"}
                    => FLt(Fit(best), One))
            /\ (pc = "done" => generation = cfg.max_gen \/ FEq(Fit(best), One)))
    /\ [][variant = "string" =>
            /\ Rank' < Rank
            /\ (pc = "while" /\ (generation = cfg.max_gen \/ FEq(Fit(best), One))
                    => pc' = "done" /\ generation' = generation)
            /\ (pc = "while" /\ generation < cfg.max_gen /\ FLt(Fit(best), One)
                    => pc' = "breed" /\ generation' = generation + 1)]_vars

C3_Witness ==
    /\ variant = "string" /\ pc = "done"
    /\ generation = 1 /\ cfg.max_gen = 2 /\ FEq(Fit(best), One)

\* the configuration is one do_the_ga can run: the tournament fits the
\* population and every operator family it draws from has a positive rate
ValidConfiguration ==
    /\ tournament_size <= cfg.pop_size
    /\ ~ChoicesRaises(mutation_rates)
    /\ (cfg.crossover > 0 => ~ChoicesRaises(crossover_rates))

\* C4: a run of the word-GA on a valid configuration ends only after the loop
\* ran max_gen times: it ends with generation = max_gen.
C4_WordFullRun ==
    (variant = "word" /\ ValidConfiguration /\ pc \in {"done", "error"})
        => (pc = "done" /\ generation = cfg.max_gen)

\* C5: the error of a tournament_size greater than the population size is
\* raised before any generation runs: the generation counter is still 0 (in
\* both files).
C5_TournamentFailFast ==
    (tournament_size > cfg.pop_size /\ err = "ValueError_sample") => generation = 0

\* C6: in the word-GA the error of operator rates that sum to zero, for
\* crossover (with crossover > 0) or for mutation, is raised before any
\* generation runs: the generation counter is still 0.
C6_RatesFailFast ==
    (variant = "word"
     /\ (ChoicesRaises(mutation_rates)
         \/ (cfg.crossover > 0 /\ ChoicesRaises(crossover_rates)))
     /\ err = "ValueError_choices")
        => generation = 0

\* C7: in mutate, insert and extend make no genome of length <= max_length
\* longer than max_length, and delete makes no genome of length >= min_length
\* shorter than min_length.
C7_MutateLengthBounds ==
    call.fn = "mutate" =>
        \A i \in 1..Len(call.pop) :
            LET before == Len(call.pop[i].solution)
                after == Len(call.result[i].solution)
                type == call.events[i].type
            IN  /\ (type \in {"insert", "extend"} /\ before <= max_length
                        => after <= max_length)
                /\ (type = "delete" /\ before >= min_length => after >= min_length)

C7_Witness ==
    /\ call.fn = "mutate"
    /\ \E i \in 1..Len(call.pop) :
        /\ call.events[i].type = "insert" /\ call.events[i].applied
        /\ Len(call.pop[i].solution) = max_length - 1
        /\ Len(call.result[i].solution) = max_length

\* C8: when mutate draws extend for a genome of length L, the genome is
\* extended to length 2L+1 if 2L+1 <= max_length and left as it is only if
\* 2L+1 > max_length.
C8_ExtendWheneverItFits ==
    call.fn = "mutate" =>
        \A i \in 1..Len(call.pop) :
            LET L == Len(call.pop[i].solution)
            IN  call.events[i].type = "extend" =>
                    /\ (2 * L + 1 <= max_length
                            => /\ call.events[i].applied
                               /\ Len(call.result[i].solution) = 2 * L + 1
                               /\ call.result[i].solution[L + 1] = 0)
                    /\ (2 * L + 1 > max_length
                            => call.result[i].solution = call.pop[i].solution)

\* C9: breed returns as many offspring as the population has individuals, each
\* with fitness None, the first with the solution of pop[0] when elitism is
\* True; in both files.
C9_BreedPopulation ==
    [][(pc = "breed" /\ pc' = "mutate") =>
          /\ Len(pop') = Len(pop)
          /\ \A i \in 1..Len(pop') : pop'[i].fitness = None
          /\ (cfg.elitism => pop'[1].solution = pop[1].solution)]_vars

C9_Witness ==
    /\ pc = "mutate" /\ cfg.elitism /\ cfg.crossover = 50 /\ Len(pop) = 2
    /\ pop[2].solution # pop[1].solution

\* C10: tournament(pop, k), 1 <= k <= len(pop), draws k distinct individuals
\* and returns the solution of one of them that no other of them beats; for
\* k = len(pop) it has the greatest fitness of pop; for k = 1 the solution of
\* every individual of pop can be returned.
C10_Tournament ==
    call.fn \in {"tournament", "new_tournament"} =>
        LET p == call.pop
            c == call.competitors
            k == call.tournament_size
        IN  /\ Len(c) = k
            /\ \A i, j \in 1..k : i # j => c[i] # c[j]
            /\ \E i \in 1..k :
                /\ p[c[i]].solution = call.solution
                /\ \A j \in 1..k : FLe(Fit(p[c[j]]), Fit(p[c[i]]))
            /\ (k = Len(p) =>
                    \E i \in 1..Len(p) :
                        /\ p[i].solution = call.solution
                        /\ \A j \in 1..Len(p) : FLe(Fit(p[j]), Fit(p[i])))
            /\ (k = 1 =>
                    \A i \in 1..Len(p) :
                        p[i].solution \in
                            (IF call.fn = "tournament" THEN TournamentSolutions(p, 1)
                             ELSE NewTournamentSolutions(p, 1)))

C10_Witness ==
    /\ call.fn = "new_tournament" /\ call.tournament_size = 2 /\ Len(call.pop) = 3
    /\ \E i \in 1..3 :
        /\ call.pop[i].solution = call.solution
        /\ FLt(Fit(call.pop[i]), Fit(call.pop[1]))
        /\ \A j \in 1..3 : call.pop[j].solution = call.solution => j = i

Zero == Frac(0, 1)

\* C11: for strings of one length L, match is in 0..L and is L exactly when the
\* strings are equal; get_fitness is the greatest match over the lines divided
\* by L, lies in [0, 1], is 1 exactly when the solution is one of the lines,
\* and is 0 for no lines.
C11_MatchAndFitness ==
    call.fn = "get_fitness" =>
        LET L == call.length
            n == Len(call.lines)
        IN  /\ \A k \in 1..n :
                   /\ call.scores[k] \in 0..L
                   /\ (call.scores[k] = L <=> call.solution = call.lines[k])
            /\ call.fitness.den = L
            /\ \A k \in 1..n : call.scores[k] <= call.fitness.num
            /\ (n > 0 => \E k \in 1..n : call.scores[k] = call.fitness.num)
            /\ (n = 0 => FEq(call.fitness, Zero))
            /\ FLe(Zero, call.fitness) /\ FLe(call.fitness, One)
            /\ (FEq(call.fitness, One) <=> \E k \in 1..n : call.solution = call.lines[k])

C11_Witness ==
    /\ call.fn = "get_fitness" /\ call.length = 2 /\ Len(call.lines) = 2
    /\ call.scores = <<1, 2>>
    /\ FEq(call.fitness, One)

\* the legal pairs of a genotype: the pairs (previous, word) of word_pairs along
\* 0, the genotype without one trailing 0, 0
LegalPairs(genotype) ==
    LET walk == Walk(genotype)
    IN  Cardinality({k \in 1..Len(walk) :
                        <<(IF k = 1 THEN 0 ELSE walk[k - 1]), walk[k]>> \in word_pairs})

\* C12: with the weight LP = 1 and every other weight 0, get_fitness of a
\* genotype returns the number of its legal pairs.
C12_LegalPairsOnly ==
    (call.fn = "new_get_fitness" /\ call.recipe = LegalPairsOnly) =>
        /\ ~call.raised
        /\ FEq(Val(call.fitness), Frac(LegalPairs(call.genotype), 1))

\* C13: one-point crossover (cross of the string-GA, one_pt_cross of the
\* word-GA) draws its cut from all of 0..min(len(mum), len(dad)) and returns
\* mum up to the cut followed by dad from the cut: dad for the cut 0, and mum
\* for the cut len(mum) of parents of one length.
C13_OnePointCut ==
    call.fn \in {"cross", "one_pt_cross"} =>
        LET mum == call.mum
            dad == call.dad
        IN  /\ call.points = 0..Min2(Len(mum), Len(dad))
            /\ call.point \in call.points
            /\ call.result = SubSeq(mum, 1, call.point)
                                \o SubSeq(dad, call.point + 1, Len(dad))
            /\ (call.point = 0 => call.result = dad)
            /\ (call.point = Len(mum) /\ Len(mum) = Len(dad) => call.result = mum)

InBounds(solution) == min_length <= Len(solution) /\ Len(solution) <= max_length

\* C14: cross of the word-GA returns mum when the parents differ in length,
\* whatever the operator rates, and when the offspring of the operator has a
\* length outside min_length..max_length; what it returns is mum or a genome
\* of a length within min_length..max_length.
C14_CrossFallsBackToMum ==
    call.fn = "new_cross" =>
        /\ (Len(call.mum) # Len(call.dad) => call.result = call.mum)
        /\ (~InBounds(call.new) => call.result = call.mum)
        /\ (call.result = call.mum \/ InBounds(call.result))

C14_Witness ==
    /\ call.fn = "new_cross" /\ call.type = "four-pt"
    /\ Len(call.mum) = UnitCrossLen /\ Len(call.new) > max_length
    /\ call.mum # call.dad /\ call.result = call.mum

\* after is before with at most one word replaced
PointOf(before, after) ==
    /\ Len(after) = Len(before)
    /\ Cardinality({w \in 1..Len(before) : after[w] # before[w]}) <= 1

\* long is short with one word inserted
InsertionOf(short, long) ==
    /\ Len(long) = Len(short) + 1
    /\ \E w \in 1..Len(long) :
          short = SubSeq(long, 1, w - 1) \o SubSeq(long, w + 1, Len(long))

\* after is before followed by 0 and as many words as before has
ExtensionOf(before, after) ==
    /\ Len(after) = 2 * Len(before) + 1
    /\ SubSeq(after, 1, Len(before)) = before
    /\ after[Len(before) + 1] = 0

\* C15: mutate of the word-GA leaves every offspring unchanged or changed by
\* exactly one point replacement, insertion, deletion or extension; an
\* operator that the length bounds forbid leaves the genome unchanged; with
\* elitism the individual at index 0 is not mutated.
C15_AtMostOneMutation ==
    call.fn = "mutate" =>
        /\ \A i \in 1..Len(call.pop) :
              LET before == call.pop[i].solution
                  after == call.result[i].solution
                  e == call.events[i]
              IN  /\ \/ after = before
                     \/ PointOf(before, after)
                     \/ InsertionOf(before, after)
                     \/ InsertionOf(after, before)
                     \/ ExtensionOf(before, after)
                  /\ (~e.applied => after = before)
                  /\ (e.applied =>
                        CASE e.type = "point" -> PointOf(before, after)
                          [] e.type = "insert" -> InsertionOf(before, after)
                          [] e.type = "delete" -> InsertionOf(after, before)
                          [] e.type = "extend" -> ExtensionOf(before, after)
                          [] OTHER -> FALSE)
        /\ (call.elitism => /\ call.events[1].type = "elite"
                            /\ call.result[1].solution = call.pop[1].solution)

C15_Witness ==
    /\ call.fn = "mutate" /\ call.elitism
    /\ call.events[2].type = "delete" /\ ~call.events[2].applied
    /\ Len(call.pop[2].solution) = min_length
    /\ call.result[2].solution = call.pop[2].solution

\* C16: initialise (of either file) returns pop_size individuals, each with
\* fitness None and a solution of the given length over the symbols (the
\* alphabet, or the word indices 0..W-1); all solutions are the same when
\* converged is True.
C16_Initialise ==
    call.fn \in {"initialise", "new_initialise"} =>
        LET p == call.result
        IN  /\ Len(p) = call.pop_size
            /\ \A i \in 1..Len(p) :
                   /\ p[i].fitness = None
                   /\ Len(p[i].solution) = call.length
                   /\ \A k \in 1..Len(p[i].solution) : p[i].solution[k] \in call.symbols
            /\ (call.converged =>
                   \A i, j \in 1..Len(p) : p[i].solution = p[j].solution)

C16_Witness ==
    /\ call.fn = "new_initialise" /\ call.converged /\ call.pop_size = 3
    /\ call.result[3].solution = <<0, 1, 1>>

\* C17: in a run of the string-GA every solution of the population, and of
\* best, has the length of the run (len(target), or length without a target),
\* after initialise, breed (tournament and cross) and mutate alike.
C17_StringLengthFixed ==
    variant = "string" =>
        /\ \A i \in 1..Len(pop) : Len(pop[i].solution) = length
        /\ (best # NoIndividual => Len(best.solution) = length)

C17_Witness ==
    /\ variant = "string" /\ pc = "assess" /\ generation = 2
    /\ cfg.crossover = 100 /\ cfg.target = <<>> /\ cfg.length = 2
    /\ Len(pop) = 2 /\ pop[1].solution # pop[2].solution
    /\ pop[1].solution # best.solution /\ pop[2].solution # best.solution

\* the fitness of the individual is the one get_fitness (of the run's file)
\* returns for its solution
Fresh(i) ==
    /\ i.fitness # None
    /\ Fit(i) = (IF variant = "string" THEN get_fitness(i.solution, lines, length)
                 ELSE new_get_fitness(i.solution, fitness_recipe))

\* C18: wherever do_the_ga (of either file) reads a fitness, in the loop test,
\* in breed's tournaments and its choice of pop[0], in the progress report and
\* in the final report, every individual of pop and best carry the fitness of
\* the solution they hold.
C18_FitnessFresh ==
    (variant \in {"string", "word"} /\ pc \in {"while", "breed", "done"}) =>
        /\ \A i \in 1..Len(pop) : Fresh(pop[i])
        /\ Fresh(best)
        /\ best = pop[1]

C18_Witness ==
    /\ variant = "word" /\ pc = "breed" /\ generation = 2 /\ Len(pop) = 2
    /\ ~cfg.elitism /\ cfg.crossover = 50
    /\ FLt(Fit(pop[2]), Fit(pop[1]))

\* C19: in a run of the word-GA that starts from genomes of a length within
\* min_length..max_length, every solution of the population, and of best, has
\* a length within min_length..max_length and only words of 0..W-1, whatever
\* the operator rates.
C19_WordLengthInBounds ==
    (variant = "word" /\ InBounds([k \in 1..cfg.length |-> 0])) =>
        /\ \A i \in 1..Len(pop) :
               /\ InBounds(pop[i].solution)
               /\ \A k \in 1..Len(pop[i].solution) : pop[i].solution[k] \in Words
        /\ (best # NoIndividual =>
               /\ InBounds(best.solution)
               /\ \A k \in 1..Len(best.solution) : best.solution[k] \in Words)

C19_Witness ==
    /\ variant = "word" /\ pc = "while" /\ generation = 2
    /\ cfg.length = max_length - 1
    /\ Len(pop[1].solution) = max_length
    /\ \E k \in 1..max_length : pop[1].solution[k] = 0

\* C20: get_fitness of the word-GA returns a fitness, and raises nothing, for
\* every genotype of a length within min_length..max_length over the words
\* 0..W-1, those of 0s alone and those with a single word other than 0
\* included.
C20_FitnessTotal ==
    (/\ call.fn = "new_get_fitness"
     /\ InBounds(call.genotype)
     /\ \A k \in 1..Len(call.genotype) : call.genotype[k] \in Words) =>
        /\ ~call.raised
        /\ call.fitness # None

\* C22: for parents of one length L, the offspring of one_pt_cross and of
\* two_pt_cross has length L and at every position the word of mum or of dad
\* at that position; the offspring of four_pt_cross has a length of 0..2L, and
\* every length of 0..2L is one four_pt_cross can give.
C22_CrossoverLengths ==
    (call.fn = "new_cross" /\ Len(call.mum) = Len(call.dad)) =>
        LET L == Len(call.mum)
        IN  /\ (call.type \in {"one-pt", "two-pt"} =>
                   /\ Len(call.new) = L
                   /\ \A i \in 1..L : call.new[i] \in {call.mum[i], call.dad[i]})
            /\ (call.type = "four-pt" => Len(call.new) \in 0..(2 * L))
            /\ call.four_pt_lengths = 0..(2 * L)

C22_Witness ==
    /\ call.fn = "new_cross" /\ call.type = "two-pt"
    /\ call.mum = <<0, 0, 0>> /\ call.dad = <<1, 1, 1>>
    /\ call.new = <<0, 1, 0>>

\* the individuals of the parent population and of the offspring population
Everyone == pop \o call.offspring

\* C21: in the word-GA no two individuals, of the parent population and of
\* the offspring that initialise, tournament, the elitism copy and cross
\* produce from it, hold one list; and a pass of mutate on one offspring
\* leaves the genome of every other offspring (the elite one included) and
\* of every parent as it was.
C21_NoSharedGenome ==
    /\ [](variant = "alias" =>
            \A i, j \in 1..Len(Everyone) :
                i # j => Everyone[i].solution # Everyone[j].solution)
    /\ [][(variant = "alias" /\ pc = "mutate" /\ call.i <= Len(call.offspring)) =>
            /\ \A j \in 1..Len(call.offspring) :
                   j # call.i =>
                       /\ call.offspring'[j].solution = call.offspring[j].solution
                       /\ call.heap'[call.offspring[j].solution]
                              = call.heap[call.offspring[j].solution]
            /\ \A j \in 1..Len(pop) :
                   call.heap'[pop[j].solution] = call.heap[pop[j].solution]]_vars

C21_Witness ==
    /\ variant = "alias" /\ pc = "mutate" /\ call.i = 3
    /\ cfg.elitism /\ cfg.converged
    /\ call.type = "point" /\ call.applied
    /\ call.heap[call.offspring[2].solution] # call.heap[call.offspring[1].solution]
    /\ call.heap[call.offspring[1].solution] = call.heap[pop[1].solution]
    /\ call.heap[pop[2].solution] = call.heap[pop[1].solution]

=============================================================================
